---- MODULE Spec2Model ----
(***************************************************************************)
(* Model of oxford_asl_roi_stats.py: the statistic functions, the ROI      *)
(* sample extractor get_stats, the ROI registrar, the perfusion dataset    *)
(* selector and the orchestration in main.                                 *)
(*                                                                         *)
(* Numbers.  A floating point value is a record [k, n, d]: k = "fin" is    *)
(* the rational n/d in lowest terms with d > 0, k = "nan", "inf", "ninf"   *)
(* are the IEEE specials.  Arithmetic is exact on rationals (rounding      *)
(* error and signed zeros are not modelled) and follows IEEE rules on the  *)
(* specials, as numpy does (a division by zero warns, it does not raise).  *)
(* A Python int is [k |-> "int"], None is [k |-> "none"].                  *)
(***************************************************************************)
EXTENDS Integers, Sequences, FiniteSets, TLC

VARIABLES
    \* --- statistic functions called on a sample (SpecStats)
    s_val, s_var, s_pw, s_i2,
    \* --- one call of get_stats (SpecExtract)
    x_args, x_stats, x_res,
    \* --- a run of main (SpecMain)
    fsys, options, pc, perfusion_data, rois, cur, out, err

statVars == <<s_val, s_var, s_pw, s_i2>>
exVars   == <<x_args, x_stats, x_res>>
mainVars == <<fsys, options, pc, perfusion_data, rois, cur, out, err>>
vars     == <<statVars, exVars, mainVars>>

(***************************************************************************)
(* Floating point values                                                   *)
(***************************************************************************)
Abs(i) == IF i < 0 THEN -i ELSE i

RECURSIVE GCD(_, _)
GCD(a, b) == IF b = 0 THEN a ELSE GCD(b, a % b)

\* The rational n/d (d # 0) in lowest terms with a positive denominator.
Fin(n, d) ==
    LET s == IF d < 0 THEN -1 ELSE 1
        g == GCD(Abs(n), Abs(d))
    IN  [k |-> "fin", n |-> (s * n) \div g, d |-> (s * d) \div g]

F(i)    == [k |-> "fin", n |-> i, d |-> 1]
NaN     == [k |-> "nan", n |-> 0, d |-> 1]
Inf     == [k |-> "inf", n |-> 0, d |-> 1]
NegInf  == [k |-> "ninf", n |-> 0, d |-> 1]
PyNone  == [k |-> "none", n |-> 0, d |-> 1]
PyInt(i) == [k |-> "int", n |-> i, d |-> 1]

\* np.isnan, np.isfinite
isnan(a)    == a.k = "nan"
isfinite(a) == a.k = "fin"

\* -1, 0, 1: the sign of a value that is not NaN
Sign(a) ==
    CASE a.k = "inf"  -> 1
      [] a.k = "ninf" -> -1
      [] OTHER        -> IF a.n > 0 THEN 1 ELSE IF a.n < 0 THEN -1 ELSE 0

Signed(s) == IF s > 0 THEN Inf ELSE IF s < 0 THEN NegInf ELSE NaN

FNeg(a) ==
    CASE a.k = "fin"  -> Fin(-a.n, a.d)
      [] a.k = "inf"  -> NegInf
      [] a.k = "ninf" -> Inf
      [] OTHER        -> NaN

FAdd(a, b) ==
    IF isnan(a) \/ isnan(b) THEN NaN
    ELSE IF isfinite(a) /\ isfinite(b) THEN Fin(a.n * b.d + b.n * a.d, a.d * b.d)
    ELSE IF isfinite(a) THEN b
    ELSE IF isfinite(b) THEN a
    ELSE IF a.k = b.k THEN a ELSE NaN

FSub(a, b) == FAdd(a, FNeg(b))

FMul(a, b) ==
    IF isnan(a) \/ isnan(b) THEN NaN
    ELSE IF isfinite(a) /\ isfinite(b) THEN Fin(a.n * b.n, a.d * b.d)
    ELSE Signed(Sign(a) * Sign(b))

\* numpy true division: x/0 is +-inf or nan, never an exception
FDiv(a, b) ==
    IF isnan(a) \/ isnan(b) THEN NaN
    ELSE IF isfinite(b)
         THEN IF b.n = 0 THEN Signed(Sign(a))
              ELSE IF isfinite(a) THEN Fin(a.n * b.d, a.d * b.n)
              ELSE Signed(Sign(a) * Sign(b))
    ELSE IF isfinite(a) THEN F(0) ELSE NaN

\* a <= b for finite values
FLeq(a, b) == a.n * b.d <= b.n * a.d

\* Python's sum() / np.sum over a sequence of floats
RECURSIVE SumTo(_, _)
SumTo(s, k) == IF k = 0 THEN F(0) ELSE FAdd(SumTo(s, k - 1), s[k])

FSum(s) == SumTo(s, Len(s))

\* Integer division truncating toward zero, as Python's int() of a float
Trunc(n, d) == IF n >= 0 THEN n \div d ELSE -((-n) \div d)

(***************************************************************************)
(* Statistic functions.  A result is [raised, value]: raised is "" when    *)
(* the function returns value, else the name of the exception.             *)
(***************************************************************************)
Ret(v)     == [raised |-> "", value |-> v]
Raise(exc) == [raised |-> exc, value |-> PyNone]

\* int(x) of a float
PyIntOf(x) ==
    CASE x.k = "nan" -> Raise("ValueError")
      [] x.k \in {"inf", "ninf"} -> Raise("OverflowError")
      [] OTHER -> Ret(PyInt(Trunc(x.n, x.d)))

\* prec = 1 / var; prec[~np.isfinite(prec)] = 0
Prec(var) ==
    [i \in 1..Len(var) |->
        LET p == FDiv(F(1), var[i]) IN IF isfinite(p) THEN p ELSE F(0)]

\* Mutant: the weighted sum divided by the sample count, not by sum(prec)
mean_invvarweighted_unnormalised(val, var) ==
    LET prec == Prec(var)
    IN  Ret(FDiv(FSum([i \in 1..Len(val) |-> FMul(val[i], prec[i])]), F(Len(val))))

mean_invvarweighted(val, var) ==
    LET prec == Prec(var)
    IN  Ret(FDiv(FSum([i \in 1..Len(val) |-> FMul(val[i], prec[i])]), FSum(prec)))

\* "Mean": _addvar(np.mean)
np_mean(val) == Ret(FDiv(FSum(val), F(Len(val))))

\* The other reducers of the registry are library calls on the sample; their
\* result is kept as the application itself.
LibCall(fn, val) == Ret([k |-> fn, arg |-> val])

HalfUpOffset == FDiv(F(1), F(2))

i2(val, var) ==
    LET n == Len(val)
        w == [i \in 1..n |-> FDiv(F(1), var[i])]
    IN  IF n = 0
        THEN Raise("ZeroDivisionError")   \* sum of nothing is the int 0: 0/0
        ELSE
        LET mu_bar == FDiv(FSum([i \in 1..n |-> FMul(w[i], val[i])]), FSum(w))
            Q == FSum([i \in 1..n |->
                        LET dev == FSub(val[i], mu_bar) IN FMul(w[i], FMul(dev, dev))])
            i2v == FDiv(FSub(Q, F(n - 1)), Q)
        IN  PyIntOf(FAdd(FMul(F(100), i2v), HalfUpOffset))

\* STATS_FNS in insertion order
STAT_NAMES == <<"Mean", "Std", "Median", "IQR", "Precision-weighted mean", "I2">>

STATS_FNS(stat, val, var) ==
    CASE stat = "Mean"   -> np_mean(val)
      [] stat = "Std"    -> LibCall("np.std", val)
      [] stat = "Median" -> LibCall("np.median", val)
      [] stat = "IQR"    -> LibCall("scipy.stats.iqr", val)
      [] stat = "Precision-weighted mean" -> mean_invvarweighted(val, var)
      [] stat = "I2"     -> i2(val, var)

(***************************************************************************)
(* get_stats.  An image is [shape, data] with data the voxels in flat      *)
(* order; a mask holds BOOLEAN voxels; the absent mask is NoMask.  A       *)
(* statistics row is a Python dict: a sequence of <<key, value>> pairs in  *)
(* insertion order.                                                        *)
(***************************************************************************)
NoMask == [isNone |-> TRUE, shape |-> <<>>, data |-> <<>>]
Mask(shape, data) == [isNone |-> FALSE, shape |-> shape, data |-> data]
Img(shape, data) == [shape |-> shape, data |-> data]

DictHas(d, k) == \E i \in 1..Len(d) : d[i][1] = k
DictGet(d, k) == d[CHOOSE i \in 1..Len(d) : d[i][1] = k][2]

\* d[k] = v on a dict: replace in place, or append
DictSet(d, k, v) ==
    IF DictHas(d, k)
    THEN [d EXCEPT ![CHOOSE i \in 1..Len(d) : d[i][1] = k] = <<k, v>>]
    ELSE Append(d, <<k, v>>)

DictKeys(d) == [i \in 1..Len(d) |-> d[i][1]]
\* a[m] for a boolean array m of a's shape: the selected voxels in order
RECURSIVE Select(_, _)
Select(data, m) ==
    IF data = <<>> THEN <<>>
    ELSE (IF Head(m) THEN <<Head(data)>> ELSE <<>>) \o Select(Tail(data), Tail(m))

\* Mutant: the extra mask joined with logical_or instead of logical_and
effective_roi_or_mask(img, roi, ignore_nan, ignore_inf, mask) ==
    [i \in 1..Len(roi.data) |->
        \/ /\ roi.data[i]
           /\ (ignore_nan => ~isnan(img.data[i]))
           /\ (ignore_inf => isfinite(img.data[i]))
        \/ (~mask.isNone /\ mask.data[i])]

effective_roi(img, roi, ignore_nan, ignore_inf, mask) ==
    [i \in 1..Len(roi.data) |->
        /\ roi.data[i]
        /\ (ignore_nan => ~isnan(img.data[i]))
        /\ (ignore_inf => isfinite(img.data[i]))
        /\ (~mask.isNone => mask.data[i])]

\* The loop over STATS_FNS from the k-th statistic on; it stops at the first
\* statistic function that raises, leaving the row as written so far.
RECURSIVE StatsLoop(_, _, _, _, _, _, _)
StatsLoop(stats, k, sample_data, sample_var, nvoxels, min_nvoxels, suffix) ==
    IF k > Len(STAT_NAMES) THEN [raised |-> "", stats |-> stats]
    ELSE IF nvoxels < min_nvoxels
    THEN StatsLoop(DictSet(stats, STAT_NAMES[k] \o suffix, PyNone), k + 1,
                   sample_data, sample_var, nvoxels, min_nvoxels, suffix)
    ELSE LET r == STATS_FNS(STAT_NAMES[k], sample_data, sample_var)
         IN  IF r.raised # "" THEN [raised |-> r.raised, stats |-> stats]
             ELSE StatsLoop(DictSet(stats, STAT_NAMES[k] \o suffix, r.value), k + 1,
                            sample_data, sample_var, nvoxels, min_nvoxels, suffix)

ERR_IMAGE == "Image must have same dimensions as ROI"
ERR_VAR   == "Variance image must have same dimensions as ROI"
ERR_MASK  == "Mask must have same dimensions as ROI"

\* Mutant: the Nvoxels field is initialised before the shapes are validated
get_stats_init_first(stats, img, var_img, roi, suffix, ignore_nan, ignore_inf, min_nvoxels, mask) ==
    LET row == DictSet(stats, "Nvoxels" \o suffix, PyInt(0))
    IN  IF img.shape # roi.shape THEN [raised |-> ERR_IMAGE, stats |-> row]
        ELSE IF var_img.shape # roi.shape THEN [raised |-> ERR_VAR, stats |-> row]
        ELSE IF ~mask.isNone /\ mask.shape # roi.shape
        THEN [raised |-> ERR_MASK, stats |-> row]
        ELSE
        LET eff == effective_roi(img, roi, ignore_nan, ignore_inf, mask)
            sample_data == Select(img.data, eff)
            sample_var == Select(var_img.data, eff)
            nvoxels == Len(sample_data)
        IN  StatsLoop(DictSet(row, "Nvoxels" \o suffix, PyInt(nvoxels)), 1,
                      sample_data, sample_var, nvoxels, min_nvoxels, suffix)

\* get_stats: [raised, stats], raised = "" on return, stats the row afterwards
get_stats(stats, img, var_img, roi, suffix, ignore_nan, ignore_inf, min_nvoxels, mask) ==
    IF img.shape # roi.shape THEN [raised |-> ERR_IMAGE, stats |-> stats]
    ELSE IF var_img.shape # roi.shape THEN [raised |-> ERR_VAR, stats |-> stats]
    ELSE IF ~mask.isNone /\ mask.shape # roi.shape
    THEN [raised |-> ERR_MASK, stats |-> stats]
    ELSE
    LET eff == effective_roi(img, roi, ignore_nan, ignore_inf, mask)
        sample_data == Select(img.data, eff)
        sample_var == Select(var_img.data, eff)
        nvoxels == Len(sample_data)
    IN  StatsLoop(DictSet(stats, "Nvoxels" \o suffix, PyInt(nvoxels)), 1,
                  sample_data, sample_var, nvoxels, min_nvoxels, suffix)

(***************************************************************************)
(* SpecStats: the two variance-aware statistic functions applied to a      *)
(* sample drawn from bounded sets.                                         *)
(***************************************************************************)
MaxLen == 3
MaxVal == 1
MaxVar == 2

SampleVals == {F(v) : v \in (-1)..MaxVal}
SampleVars == {F(v) : v \in 0..MaxVar}

Pending == [raised |-> "pending", value |-> PyNone]

IdleStats == s_val = <<>> /\ s_var = <<>> /\ s_pw = Pending /\ s_i2 = Pending
IdleExtract == x_args = <<>> /\ x_stats = <<>> /\ x_res = ""
IdleMain ==
    /\ fsys = <<>> /\ options = <<>> /\ pc = "idle" /\ perfusion_data = <<>>
    /\ rois = <<>> /\ cur = 0 /\ out = <<>> /\ err = ""

InitStats ==
    /\ \E n \in 0..MaxLen :
          /\ s_val \in [1..n -> SampleVals]
          /\ s_var \in [1..n -> SampleVars]
    /\ s_pw = Pending
    /\ s_i2 = Pending
    /\ IdleExtract
    /\ IdleMain

CallMeanInvVarWeighted ==
    /\ s_pw = Pending
    /\ s_pw' = mean_invvarweighted(s_val, s_var)
    /\ UNCHANGED <<s_val, s_var, s_i2, exVars, mainVars>>

CallI2 ==
    /\ s_i2 = Pending
    /\ s_i2' = i2(s_val, s_var)
    /\ UNCHANGED <<s_val, s_var, s_pw, exVars, mainVars>>

NextStats == CallMeanInvVarWeighted \/ CallI2

SpecStats == InitStats /\ [][NextStats]_vars

(***************************************************************************)
(* SpecExtract: one call of get_stats on arguments drawn from bounded      *)
(* sets, on a fresh row or on a row that already holds another dataset.    *)
(***************************************************************************)
MaxMinNvoxels == 2
DEFAULT_MIN_NVOXELS == 10

Shapes == {<<1>>, <<2>>, <<1, 2>>}
ImgVals == {F(0), F(2), NaN, Inf}
VarVals == {F(1), F(2)}

RECURSIVE Size(_)
Size(shape) == IF shape = <<>> THEN 1 ELSE Head(shape) * Size(Tail(shape))

Images(Vals) == UNION {{Img(sh, d) : d \in [1..Size(sh) -> Vals]} : sh \in Shapes}
Masks == {NoMask} \cup
         UNION {{Mask(sh, d) : d \in [1..Size(sh) -> BOOLEAN]} : sh \in Shapes}

PyStr(str) == [k |-> "str", s |-> str]

\* roi["stats"] = {"name" : roi["name"]}
NewRow(name) == <<<<"name", PyStr(name)>>>>

\* The row after the unmasked dataset has been summarised for a one-voxel ROI
RowWithDataset ==
    get_stats(NewRow("roi"), Img(<<1>>, <<F(0)>>), Img(<<1>>, <<F(1)>>),
              Img(<<1>>, <<TRUE>>), "", TRUE, TRUE, DEFAULT_MIN_NVOXELS, NoMask).stats

InitExtract ==
    /\ \E img \in Images(ImgVals), var_img \in Images(VarVals),
          roi \in Images(BOOLEAN), mask \in Masks,
          ignore_nan \in BOOLEAN, ignore_inf \in BOOLEAN,
          min_nvoxels \in 0..MaxMinNvoxels,
          call \in {<<NewRow("roi"), "">>, <<RowWithDataset, " GM">>} :
          x_args = [stats |-> call[1], img |-> img, var_img |-> var_img, roi |-> roi,
                    suffix |-> call[2], ignore_nan |-> ignore_nan,
                    ignore_inf |-> ignore_inf, min_nvoxels |-> min_nvoxels,
                    mask |-> mask]
    /\ x_stats = x_args.stats
    /\ x_res = "pending"
    /\ IdleStats
    /\ IdleMain

CallGetStats ==
    /\ x_res = "pending"
    /\ LET r == get_stats(x_args.stats, x_args.img, x_args.var_img, x_args.roi,
                          x_args.suffix, x_args.ignore_nan, x_args.ignore_inf,
                          x_args.min_nvoxels, x_args.mask)
       IN  x_res' = r.raised /\ x_stats' = r.stats
    /\ UNCHANGED <<x_args, statVars, mainVars>>

NextExtract == CallGetStats

SpecExtract == InitExtract /\ [][NextExtract]_vars

(***************************************************************************)
(* The registrar and the dataset selector.  Intensities of PVE maps, ROI   *)
(* files and atlas maps, and the thresholds they are compared with, are in *)
(* tenths: 0.1 is 1, 0.5 is 5, 0.8 is 8, 50 is 500.  The transform         *)
(* collaborator (fsl.applywarp) is external: every source image carries    *)
(* the native-space image the transform returns for it.                    *)
(***************************************************************************)
PVE_THRESHOLD_PVC == 1
PVE_THRESHOLD_NOPVC == 8
STRUCT_DEFAULT_THRESHOLD == 5
MNI_DEFAULT_THRESHOLD == 5
ATLAS_HARDCODED_THRESHOLD == 500
MAIN_ATLAS_THRESHOLD == 5

\* "%i" % (pv*100): the integer part of the percentage
Percent(pv) == (pv * 100) \div 10

\* data > threshold
Binarise(img, threshold) ==
    Img(img.shape, [i \in 1..Len(img.data) |-> img.data[i] > threshold])

\* numpy truth value of an integer mask array, as logical_and reads it
Truthy(img) == Img(img.shape, [i \in 1..Len(img.data) |-> img.data[i] # 0])

NoImg == Img(<<>>, <<>>)

\* rois.append({"name" : name, "mask_native" : roi.data})
add_native_roi(rs, roi, name) ==
    Append(rs, [name |-> name, keys |-> {"name", "mask_native"},
                source |-> "", roi_native |-> NoImg,
                mask_native |-> Truthy(roi.img), stats |-> <<>>])

add_struct_roi(rs, roi, name, threshold) ==
    LET roi_native == roi.native
    IN  Append(rs, [name |-> name,
                    keys |-> {"name", "roi_struct", "roi_native", "mask_native"},
                    source |-> roi.id, roi_native |-> roi_native,
                    mask_native |-> Binarise(roi_native, threshold), stats |-> <<>>])

add_mni_roi(rs, roi, name, threshold) ==
    LET roi_native == roi.native
    IN  Append(rs, [name |-> name,
                    keys |-> {"name", "roi_mni", "roi_native", "mask_native"},
                    source |-> roi.id, roi_native |-> roi_native,
                    mask_native |-> Binarise(roi_native, threshold), stats |-> <<>>])

\* for label in desc.labels: add_mni_roi(..., threshold=50)
RECURSIVE AtlasLoop(_, _)
AtlasLoop(rs, labels) ==
    IF labels = <<>> THEN rs
    ELSE AtlasLoop(add_mni_roi(rs, Head(labels), Head(labels).name,
                               ATLAS_HARDCODED_THRESHOLD),
                   Tail(labels))

\* the threshold parameter is only logged
add_rois_from_atlas(rs, atlas, threshold) == AtlasLoop(rs, atlas)

\* Mutant: the PVC branch masks at the stricter no-PVC threshold
get_perfusion_data_one_threshold(pvcorr, gm_pve_asl, wm_pve_asl) ==
    <<[suffix |-> "", f |-> "perfusion_calib", var |-> "perfusion_var_calib",
       mask |-> NoMask]>>
    \o
    IF pvcorr
    THEN <<[suffix |-> " GM", f |-> "pvcorr/perfusion_calib",
            var |-> "pvcorr/perfusion_var_calib",
            mask |-> Mask(gm_pve_asl.shape,
                          Binarise(gm_pve_asl, PVE_THRESHOLD_NOPVC).data)],
           [suffix |-> " WM", f |-> "pvcorr/perfusion_wm_calib",
            var |-> "pvcorr/perfusion_wm_var_calib",
            mask |-> Mask(wm_pve_asl.shape,
                          Binarise(wm_pve_asl, PVE_THRESHOLD_NOPVC).data)]>>
    ELSE <<[suffix |-> " " \o ToString(Percent(PVE_THRESHOLD_NOPVC)) \o "%+GM",
            f |-> "perfusion_calib", var |-> "perfusion_var_calib",
            mask |-> Mask(gm_pve_asl.shape,
                          Binarise(gm_pve_asl, PVE_THRESHOLD_NOPVC).data)],
           [suffix |-> " " \o ToString(Percent(PVE_THRESHOLD_NOPVC)) \o "%+WM",
            f |-> "perfusion_calib", var |-> "perfusion_var_calib",
            mask |-> Mask(wm_pve_asl.shape,
                          Binarise(wm_pve_asl, PVE_THRESHOLD_NOPVC).data)]>>

\* get_perfusion_data: dataset records naming the image files they load
get_perfusion_data(pvcorr, gm_pve_asl, wm_pve_asl) ==
    <<[suffix |-> "", f |-> "perfusion_calib", var |-> "perfusion_var_calib",
       mask |-> NoMask]>>
    \o
    IF pvcorr
    THEN <<[suffix |-> " GM", f |-> "pvcorr/perfusion_calib",
            var |-> "pvcorr/perfusion_var_calib",
            mask |-> Mask(gm_pve_asl.shape,
                          Binarise(gm_pve_asl, PVE_THRESHOLD_PVC).data)],
           [suffix |-> " WM", f |-> "pvcorr/perfusion_wm_calib",
            var |-> "pvcorr/perfusion_wm_var_calib",
            mask |-> Mask(wm_pve_asl.shape,
                          Binarise(wm_pve_asl, PVE_THRESHOLD_PVC).data)]>>
    ELSE <<[suffix |-> " " \o ToString(Percent(PVE_THRESHOLD_NOPVC)) \o "%+GM",
            f |-> "perfusion_calib", var |-> "perfusion_var_calib",
            mask |-> Mask(gm_pve_asl.shape,
                          Binarise(gm_pve_asl, PVE_THRESHOLD_NOPVC).data)],
           [suffix |-> " " \o ToString(Percent(PVE_THRESHOLD_NOPVC)) \o "%+WM",
            f |-> "perfusion_calib", var |-> "perfusion_var_calib",
            mask |-> Mask(wm_pve_asl.shape,
                          Binarise(wm_pve_asl, PVE_THRESHOLD_NOPVC).data)]>>

(***************************************************************************)
(* SpecMain: a run of main.  The inputs on disk are fixed small images on  *)
(* a three-voxel acquisition grid; what varies is whether the pvcorr       *)
(* directory exists and the command line options.                          *)
(***************************************************************************)
MaxUserRois == 2

AslShape == <<3>>

\* Image(os.path.join(outdir, path)).data
Image(path) ==
    CASE path = "perfusion_calib"               -> Img(AslShape, <<F(1), F(2), F(4)>>)
      [] path = "perfusion_var_calib"           -> Img(AslShape, <<F(1), F(1), F(2)>>)
      [] path = "pvcorr/perfusion_calib"        -> Img(AslShape, <<F(2), F(3), F(5)>>)
      [] path = "pvcorr/perfusion_var_calib"    -> Img(AslShape, <<F(1), F(2), F(2)>>)
      [] path = "pvcorr/perfusion_wm_calib"     -> Img(AslShape, <<F(0), F(1), F(3)>>)
      [] path = "pvcorr/perfusion_wm_var_calib" -> Img(AslShape, <<F(2), F(1), F(1)>>)

\* T1_fast_pve_1 / T1_fast_pve_2 and their transforms into ASL space
gm_pve == [id |-> "T1_fast_pve_1", native |-> Img(AslShape, <<9, 5, 0>>)]
wm_pve == [id |-> "T1_fast_pve_2", native |-> Img(AslShape, <<0, 5, 9>>)]

\* ROI files the command line may name: the ROI name is the file name's stem
\* (os.path.basename(fname).split(".")[0]).
NativeFiles ==
    {[id |-> "a/lesion.nii.gz", stem |-> "lesion", img |-> Img(AslShape, <<1, 1, 0>>)],
     [id |-> "b/lesion.nii.gz", stem |-> "lesion", img |-> Img(AslShape, <<0, 1, 1>>)],
     [id |-> "c/Big ROI.nii.gz", stem |-> "Big ROI", img |-> Img(<<2>>, <<1, 1>>)]}
StructFiles ==
    {[id |-> "s/Lesion.nii.gz", stem |-> "Lesion", native |-> Img(AslShape, <<10, 6, 4>>)]}
MniFiles ==
    {[id |-> "m/10%+GM.nii", stem |-> "10%+GM", native |-> Img(AslShape, <<0, 7, 10>>)]}

\* desc.labels of the two atlases, each with atlas.get(label) transformed
\* into ASL space (probabilities 0-100)
Atlas(atlas_name) ==
    CASE atlas_name = "harvardoxford-cortical" ->
            <<[id |-> "cort/0", name |-> "Frontal Pole",
               native |-> Img(AslShape, <<900, 300, 0>>)],
              [id |-> "cort/4", name |-> "Inferior Frontal Gyrus, pars triangularis",
               native |-> Img(AslShape, <<0, 600, 700>>)]>>
      [] atlas_name = "harvardoxford-subcortical" ->
            <<[id |-> "sub/3", name |-> "Left Thalamus",
               native |-> Img(AslShape, <<20, 1000, 510>>)]>>

\* roi["name"].replace(" ", "_").replace(",", "").lower() + ".nii.gz"
FName(name) ==
    CASE name = "10%+GM"       -> "10%+gm.nii.gz"
      [] name = "10%+WM"       -> "10%+wm.nii.gz"
      [] name = "80%+GM"       -> "80%+gm.nii.gz"
      [] name = "80%+WM"       -> "80%+wm.nii.gz"
      [] name = "lesion"       -> "lesion.nii.gz"
      [] name = "Lesion"       -> "lesion.nii.gz"
      [] name = "Big ROI"      -> "big_roi.nii.gz"
      [] name = "Frontal Pole" -> "frontal_pole.nii.gz"
      [] name = "Inferior Frontal Gyrus, pars triangularis"
                               -> "inferior_frontal_gyrus_pars_triangularis.nii.gz"
      [] name = "Left Thalamus" -> "left_thalamus.nii.gz"

RECURSIVE SeqsUpTo(_, _)
SeqsUpTo(S, n) ==
    IF n = 0 THEN {<<>>}
    ELSE LET shorter == SeqsUpTo(S, n - 1)
         IN  shorter \cup {Append(q, x) : q \in {r \in shorter : Len(r) = n - 1}, x \in S}

\* Mutant: the output directory and table file are opened before the statistics
PhaseOrder_output_first ==
    <<"perfusion", "generic", "native", "struct", "mni", "atlas", "output",
      "stats", "write", "done">>

\* The statements of main in order; every phase but the last moves to the next
PhaseOrder ==
    <<"perfusion", "generic", "native", "struct", "mni", "atlas", "stats",
      "output", "write", "done">>

After(phase) ==
    PhaseOrder[(CHOOSE i \in 1..Len(PhaseOrder) : PhaseOrder[i] = phase) + 1]

\* The combinations <<save_native_rois, save_native_masks, save_mni_rois>>
\* of the three --save-* flags that are explored
SaveChoices ==
    {<<FALSE, FALSE, FALSE>>, <<TRUE, FALSE, FALSE>>, <<FALSE, TRUE, FALSE>>,
     <<FALSE, FALSE, TRUE>>, <<TRUE, TRUE, TRUE>>}

NoOutput == [dir |-> FALSE, file |-> "none", fieldnames |-> <<>>, table |-> <<>>,
             files |-> <<>>]

InitMain ==
    /\ fsys \in [pvcorr : BOOLEAN]
    /\ options \in [roi_native : SeqsUpTo(NativeFiles, MaxUserRois),
                    roi_struct : SeqsUpTo(StructFiles, 1),
                    roi_mni : SeqsUpTo(MniFiles, 1),
                    add_atlas_rois : BOOLEAN,
                    save_mni_rois : BOOLEAN,
                    save_native_rois : BOOLEAN,
                    save_native_masks : BOOLEAN,
                    min_nvoxels : {2, DEFAULT_MIN_NVOXELS}]
    /\ <<options.save_native_rois, options.save_native_masks,
         options.save_mni_rois>> \in SaveChoices
    /\ pc = PhaseOrder[1]
    /\ perfusion_data = <<>>
    /\ rois = <<>>
    /\ cur = 1
    /\ out = NoOutput
    /\ err = ""
    /\ IdleStats
    /\ IdleExtract

Goto(phase) == pc' = phase /\ cur' = 1

\* perfusion_data = get_perfusion_data(outdir, gm_pve_asl, wm_pve_asl)
LoadPerfusion ==
    /\ pc = "perfusion"
    /\ perfusion_data' = get_perfusion_data(fsys.pvcorr, gm_pve.native, wm_pve.native)
    /\ Goto(After(pc))
    /\ UNCHANGED <<fsys, options, rois, out, err, statVars, exVars>>

\* for pv in (0.1, 0.8): add_struct_roi(GM), add_struct_roi(WM)
GENERIC_PVS == <<PVE_THRESHOLD_PVC, PVE_THRESHOLD_NOPVC>>

AddGenericRois ==
    /\ pc = "generic"
    /\ IF cur <= Len(GENERIC_PVS)
       THEN LET pv == GENERIC_PVS[cur]
                withGM == add_struct_roi(rois, gm_pve,
                                         ToString(Percent(pv)) \o "%+GM", pv)
            IN  /\ rois' = add_struct_roi(withGM, wm_pve,
                                          ToString(Percent(pv)) \o "%+WM", pv)
                /\ cur' = cur + 1
                /\ UNCHANGED pc
       ELSE Goto(After(pc)) /\ UNCHANGED rois
    /\ UNCHANGED <<fsys, options, perfusion_data, out, err, statVars, exVars>>

\* for fname in options.roi_native: add_native_roi(...)
AddNativeRoi ==
    /\ pc = "native"
    /\ IF cur <= Len(options.roi_native)
       THEN /\ rois' = add_native_roi(rois, options.roi_native[cur],
                                      options.roi_native[cur].stem)
            /\ cur' = cur + 1
            /\ UNCHANGED pc
       ELSE Goto(After(pc)) /\ UNCHANGED rois
    /\ UNCHANGED <<fsys, options, perfusion_data, out, err, statVars, exVars>>

AddStructRoi ==
    /\ pc = "struct"
    /\ IF cur <= Len(options.roi_struct)
       THEN /\ rois' = add_struct_roi(rois, options.roi_struct[cur],
                                      options.roi_struct[cur].stem,
                                      STRUCT_DEFAULT_THRESHOLD)
            /\ cur' = cur + 1
            /\ UNCHANGED pc
       ELSE Goto(After(pc)) /\ UNCHANGED rois
    /\ UNCHANGED <<fsys, options, perfusion_data, out, err, statVars, exVars>>

AddMniRoi ==
    /\ pc = "mni"
    /\ IF cur <= Len(options.roi_mni)
       THEN /\ rois' = add_mni_roi(rois, options.roi_mni[cur],
                                   options.roi_mni[cur].stem, MNI_DEFAULT_THRESHOLD)
            /\ cur' = cur + 1
            /\ UNCHANGED pc
       ELSE Goto(After(pc)) /\ UNCHANGED rois
    /\ UNCHANGED <<fsys, options, perfusion_data, out, err, statVars, exVars>>

\* if options.add_atlas_rois: the cortical, then the subcortical atlas
ATLAS_NAMES == <<"harvardoxford-cortical", "harvardoxford-subcortical">>

AddAtlasRois ==
    /\ pc = "atlas"
    /\ IF options.add_atlas_rois /\ cur <= Len(ATLAS_NAMES)
       THEN /\ rois' = add_rois_from_atlas(rois, Atlas(ATLAS_NAMES[cur]),
                                           MAIN_ATLAS_THRESHOLD)
            /\ cur' = cur + 1
            /\ UNCHANGED pc
       ELSE Goto(After(pc)) /\ UNCHANGED rois
    /\ UNCHANGED <<fsys, options, perfusion_data, out, err, statVars, exVars>>

\* for item in perfusion_data: get_stats(roi["stats"], ...), up to the first
\* call that raises
RECURSIVE ItemLoop(_, _, _, _)
ItemLoop(row, mask_native, items, min_nvoxels) ==
    IF items = <<>> THEN [raised |-> "", stats |-> row]
    ELSE LET d == Head(items)
             r == get_stats(row, Image(d.f), Image(d.var), mask_native,
                            d.suffix, TRUE, TRUE, min_nvoxels, d.mask)
         IN  IF r.raised # "" THEN r
             ELSE ItemLoop(r.stats, mask_native, Tail(items), min_nvoxels)

\* One pass of "for roi in rois": a fresh row, then every dataset; an
\* exception ends the run.
GetStatsStep ==
    /\ pc = "stats"
    /\ IF cur <= Len(rois)
       THEN LET roi == rois[cur]
                r == ItemLoop(NewRow(roi.name), roi.mask_native, perfusion_data,
                              options.min_nvoxels)
            IN  /\ rois' = [rois EXCEPT ![cur].stats = r.stats]
                /\ IF r.raised # ""
                   THEN pc' = "aborted" /\ err' = r.raised /\ UNCHANGED cur
                   ELSE cur' = cur + 1 /\ UNCHANGED <<pc, err>>
       ELSE Goto(After(pc)) /\ UNCHANGED <<rois, err>>
    /\ UNCHANGED <<fsys, options, perfusion_data, out, statVars, exVars>>

\* os.makedirs(options.output); open(".../region_analysis.csv", mode="w")
OpenTable ==
    /\ pc = "output"
    /\ out' = [out EXCEPT !.dir = TRUE, !.file = "open"]
    /\ Goto(After(pc))
    /\ UNCHANGED <<fsys, options, perfusion_data, rois, err, statVars, exVars>>

\* Mutant: the writer is never remembered, so every pass sees writer is None
NeedsHeader_every_pass(o) == TRUE

\* if writer is None
NeedsHeader(o) == o.fieldnames = <<>>

\* Mutant: the table keeps one row per name, a later row replacing an earlier
RECURSIVE ReplaceNamed(_, _)
ReplaceNamed(table, line) ==
    IF table = <<>> THEN <<line>>
    ELSE IF Head(table).kind = "row" /\ Head(table).cells[1] = line.cells[1]
    THEN <<line>> \o Tail(table)
    ELSE <<Head(table)>> \o ReplaceNamed(Tail(table), line)

writerow_keyed_by_name(table, fieldnames, rowdict) ==
    IF \E i \in 1..Len(rowdict) : ~\E j \in 1..Len(fieldnames) : fieldnames[j] = rowdict[i][1]
    THEN [raised |-> "ValueError", table |-> table]
    ELSE [raised |-> "",
          table |-> ReplaceNamed(table,
                       [kind |-> "row",
                        cells |-> [j \in 1..Len(fieldnames) |->
                                     IF DictHas(rowdict, fieldnames[j])
                                     THEN DictGet(rowdict, fieldnames[j])
                                     ELSE PyStr("")]])]

\* csv.DictWriter.writerow: a key outside fieldnames raises, a missing key is ""
writerow(table, fieldnames, rowdict) ==
    IF \E i \in 1..Len(rowdict) : ~\E j \in 1..Len(fieldnames) : fieldnames[j] = rowdict[i][1]
    THEN [raised |-> "ValueError", table |-> table]
    ELSE [raised |-> "",
          table |-> Append(table,
                       [kind |-> "row",
                        cells |-> [j \in 1..Len(fieldnames) |->
                                     IF DictHas(rowdict, fieldnames[j])
                                     THEN DictGet(rowdict, fieldnames[j])
                                     ELSE PyStr("")]])]

\* _write_nii(img, os.path.join(options.output, dir, fname)) when wanted
SaveIf(files, wanted, dir, name, what) ==
    IF wanted THEN DictSet(files, dir \o "/" \o FName(name), what) ELSE files

\* One pass of "for roi in rois" in the with block: the header before the
\* first row, the row, then the side-car images.
WriteRoi ==
    /\ pc = "write"
    /\ IF cur <= Len(rois)
       THEN LET roi == rois[cur]
                fieldnames == IF NeedsHeader(out) THEN DictKeys(roi.stats)
                              ELSE out.fieldnames
                headed == IF NeedsHeader(out)
                          THEN Append(out.table, [kind |-> "header", cells |-> fieldnames])
                          ELSE out.table
                w == writerow(headed, fieldnames, roi.stats)
                f1 == SaveIf(out.files,
                             options.save_native_rois /\ "roi_native" \in roi.keys,
                             "rois_native", roi.name, [roi |-> cur, what |-> "roi_native"])
                f2 == SaveIf(f1,
                             options.save_native_masks /\ "mask_native" \in roi.keys,
                             "masks_native", roi.name, [roi |-> cur, what |-> "mask_native"])
                f3 == SaveIf(f2,
                             options.save_mni_rois /\ "roi_mni" \in roi.keys,
                             "rois_mni", roi.name, [roi |-> cur, what |-> "roi_mni"])
            IN  IF w.raised # ""
                THEN /\ out' = [out EXCEPT !.fieldnames = fieldnames, !.table = headed,
                                           !.file = "closed"]
                     /\ pc' = "aborted" /\ err' = w.raised
                     /\ UNCHANGED cur
                ELSE /\ out' = [out EXCEPT !.fieldnames = fieldnames, !.table = w.table,
                                           !.files = f3]
                     /\ cur' = cur + 1
                     /\ UNCHANGED <<pc, err>>
       ELSE /\ out' = [out EXCEPT !.file = "closed"]
            /\ Goto(After(pc))
            /\ UNCHANGED err
    /\ UNCHANGED <<fsys, options, perfusion_data, rois, statVars, exVars>>

NextMain ==
    \/ LoadPerfusion
    \/ AddGenericRois
    \/ AddNativeRoi
    \/ AddStructRoi
    \/ AddMniRoi
    \/ AddAtlasRois
    \/ GetStatsStep
    \/ OpenTable
    \/ WriteRoi

SpecMain == InitMain /\ [][NextMain]_vars

(***************************************************************************)
(* Claims about the statistic functions (checked under SpecStats)          *)
(***************************************************************************)
PosFinite(var) == \A i \in 1..Len(var) : isfinite(var[i]) /\ var[i].n > 0

RECURSIVE IntSum(_)
IntSum(s) == IF s = <<>> THEN 0 ELSE Head(s).n + IntSum(Tail(s))

\* Q = sum(w_i * (val_i - mu)^2) with w_i = 1/var_i, mu = sum(w_i*val_i)/sum(w_i)
CochranQ(val, var) ==
    LET w  == [i \in 1..Len(val) |-> FDiv(F(1), var[i])]
        mu == FDiv(FSum([i \in 1..Len(val) |-> FMul(w[i], val[i])]), FSum(w))
    IN  FSum([i \in 1..Len(val) |->
                FMul(w[i], FMul(FSub(val[i], mu), FSub(val[i], mu)))])

\* x rounded to the nearest integer, halves up: floor(x + 1/2)
RoundHalfUp(x) == (2 * x.n + x.d) \div (2 * x.d)

I2Percent(val, var) ==
    LET Q == CochranQ(val, var)
    IN  FMul(F(100), FDiv(FSub(Q, F(Len(val) - 1)), Q))

\* C6: for every sample of size n >= 2 with positive finite variances and
\* Q > 0, i2 returns 100*(Q-(n-1))/Q rounded half-up, also when negative.
C6_I2RoundsHalfUp ==
    (/\ s_i2 # Pending
     /\ Len(s_val) >= 2
     /\ PosFinite(s_var)
     /\ Sign(CochranQ(s_val, s_var)) > 0)
    => s_i2 = Ret(PyInt(RoundHalfUp(I2Percent(s_val, s_var))))

ShapeErrors == {ERR_IMAGE, ERR_VAR, ERR_MASK}
ImgMismatch  == x_args.img.shape # x_args.roi.shape
VarMismatch  == x_args.var_img.shape # x_args.roi.shape
MaskMismatch == ~x_args.mask.isNone /\ x_args.mask.shape # x_args.roi.shape
Called == x_res # "pending"

\* C1: a shape mismatch of the image, the variance image or the extra mask
\* against the ROI makes get_stats fail, each with an error of its own, and
\* a failed call leaves the caller's row as it was.
C1_ShapeMismatchFails ==
    Called =>
       /\ (ImgMismatch \/ VarMismatch \/ MaskMismatch) => x_res \in ShapeErrors
       /\ x_res = ERR_IMAGE => ImgMismatch
       /\ x_res = ERR_VAR => VarMismatch
       /\ x_res = ERR_MASK => MaskMismatch
       /\ Cardinality(ShapeErrors) = 3
       /\ x_res \in ShapeErrors => x_stats = x_args.stats

\* C1 witness: a mask of the wrong shape, on a row that already holds a dataset
C1_Witness ==
    /\ x_res = ERR_MASK
    /\ x_args.stats = RowWithDataset
    /\ x_stats = RowWithDataset

\* The voxels that pass the ROI, the NaN/Inf filters and the extra mask
Passing ==
    {i \in 1..Len(x_args.roi.data) :
        /\ x_args.roi.data[i]
        /\ (x_args.ignore_nan => x_args.img.data[i].k # "nan")
        /\ (x_args.ignore_inf => x_args.img.data[i].k = "fin")
        /\ (~x_args.mask.isNone => x_args.mask.data[i])}

Validated == Called /\ x_res \notin ShapeErrors

\* C2: after every call, Nvoxels<suffix> is the filtered voxel count n, every
\* statistic is None exactly when n < min_nvoxels, and otherwise holds the
\* value of its statistic function.
C2_NoneIffTooFewVoxels ==
    Validated =>
       LET n == Cardinality(Passing)
           eff == [i \in 1..Len(x_args.roi.data) |-> i \in Passing]
           val == Select(x_args.img.data, eff)
           var == Select(x_args.var_img.data, eff)
       IN  /\ DictHas(x_stats, "Nvoxels" \o x_args.suffix)
           /\ DictGet(x_stats, "Nvoxels" \o x_args.suffix) = PyInt(n)
           /\ \A k \in 1..Len(STAT_NAMES) :
                LET key == STAT_NAMES[k] \o x_args.suffix
                IN  /\ DictHas(x_stats, key)
                    /\ (DictGet(x_stats, key) = PyNone) <=> (n < x_args.min_nvoxels)
                    /\ (n >= x_args.min_nvoxels) =>
                          DictGet(x_stats, key) = STATS_FNS(STAT_NAMES[k], val, var).value

\* The same statement for the calls that return (no statistic function raised)
C2_HoldsWhenReturning == (x_res = "") => C2_NoneIffTooFewVoxels

\* C3: the effective ROI is a subset of the ROI mask (and of the extra mask
\* when given) for every flag combination; the count written never exceeds
\* the ROI's voxel count.
C3_EffectiveRoiSubset ==
    Validated =>
       LET eff == effective_roi(x_args.img, x_args.roi, x_args.ignore_nan,
                                x_args.ignore_inf, x_args.mask)
           nroi == Cardinality({i \in 1..Len(x_args.roi.data) : x_args.roi.data[i]})
       IN  /\ \A i \in 1..Len(eff) :
                eff[i] => /\ x_args.roi.data[i]
                          /\ (~x_args.mask.isNone => x_args.mask.data[i])
           /\ DictGet(x_stats, "Nvoxels" \o x_args.suffix).n
                 = Cardinality({i \in 1..Len(eff) : eff[i]})
           /\ DictGet(x_stats, "Nvoxels" \o x_args.suffix).n <= nroi

\* C3 witness: filters off, a mask given, the ROI strictly shrunk but not emptied
C3_Witness ==
    /\ x_res = ""
    /\ ~x_args.ignore_nan /\ ~x_args.ignore_inf /\ ~x_args.mask.isNone
    /\ Cardinality(Passing) = 1
    /\ \A i \in 1..Len(x_args.roi.data) : x_args.roi.data[i]
    /\ Len(x_args.roi.data) = 2

(***************************************************************************)
(* Claims about the dataset selector, the registrar and main (SpecMain)    *)
(***************************************************************************)
Loaded == pc \notin {"idle", "perfusion"}

\* mask = (pve.data > t), t in tenths
MaskedAbove(mask, pve, t) ==
    /\ ~mask.isNone
    /\ mask.shape = pve.native.shape
    /\ \A i \in 1..Len(pve.native.data) : mask.data[i] <=> (pve.native.data[i] > t)

\* C4: get_perfusion_data returns three datasets in a fixed order: "" without
\* mask, then GM and WM; with pvcorr the suffixes are " GM"/" WM", the PVC
\* images are read and the masks are PVE > 0.1; without it the suffixes are
\* " 80%+GM"/" 80%+WM", the non-PVC pair is reused and the masks are PVE > 0.8.
C4_PerfusionDatasets ==
    Loaded =>
       /\ Len(perfusion_data) = 3
       /\ perfusion_data[1].suffix = "" /\ perfusion_data[1].mask = NoMask
       /\ perfusion_data[1].f = "perfusion_calib"
       /\ perfusion_data[1].var = "perfusion_var_calib"
       /\ IF fsys.pvcorr
          THEN /\ perfusion_data[2].suffix = " GM" /\ perfusion_data[3].suffix = " WM"
               /\ perfusion_data[2].f = "pvcorr/perfusion_calib"
               /\ perfusion_data[2].var = "pvcorr/perfusion_var_calib"
               /\ perfusion_data[3].f = "pvcorr/perfusion_wm_calib"
               /\ perfusion_data[3].var = "pvcorr/perfusion_wm_var_calib"
               /\ MaskedAbove(perfusion_data[2].mask, gm_pve, 1)
               /\ MaskedAbove(perfusion_data[3].mask, wm_pve, 1)
          ELSE /\ perfusion_data[2].suffix = " 80%+GM"
               /\ perfusion_data[3].suffix = " 80%+WM"
               /\ \A k \in {2, 3} : /\ perfusion_data[k].f = perfusion_data[1].f
                                    /\ perfusion_data[k].var = perfusion_data[1].var
               /\ MaskedAbove(perfusion_data[2].mask, gm_pve, 8)
               /\ MaskedAbove(perfusion_data[3].mask, wm_pve, 8)

\* C4 witness: the PVC branch taken, its GM mask keeping a voxel of PVE 0.5
C4_Witness ==
    /\ Loaded /\ fsys.pvcorr
    /\ \E i \in 1..Len(gm_pve.native.data) :
          gm_pve.native.data[i] = 5 /\ perfusion_data[2].mask.data[i]

\* C5: every atlas label is registered with its transformed map binarised at
\* the threshold the caller passed to add_rois_from_atlas.
C5_AtlasUsesCallerThreshold ==
    \A i \in 1..Len(rois) :
       rois[i].source \in {"cort/0", "cort/4", "sub/3"} =>
          rois[i].mask_native = Binarise(rois[i].roi_native, MAIN_ATLAS_THRESHOLD)

ExpectedNames ==
    <<"10%+GM", "10%+WM", "80%+GM", "80%+WM">>
    \o [i \in 1..Len(options.roi_native) |-> options.roi_native[i].stem]
    \o [i \in 1..Len(options.roi_struct) |-> options.roi_struct[i].stem]
    \o [i \in 1..Len(options.roi_mni) |-> options.roi_mni[i].stem]
    \o (IF options.add_atlas_rois
        THEN <<"Frontal Pole", "Inferior Frontal Gyrus, pars triangularis",
               "Left Thalamus">>
        ELSE <<>>)

\* C8: a completed run leaves one header row, first, with the fields of the
\* first ROI's row, then one data row per ROI record in the order the records
\* were appended: generic GM/WM, native, structural, MNI, atlas.
C8_TableLayout ==
    pc = "done" =>
       /\ Len(rois) >= 1
       /\ Len(out.table) = Len(rois) + 1
       /\ out.table[1] = [kind |-> "header", cells |-> DictKeys(rois[1].stats)]
       /\ \A i \in 1..Len(rois) :
             /\ out.table[i + 1].kind = "row"
             /\ out.table[i + 1].cells =
                   [j \in 1..Len(rois[i].stats) |-> rois[i].stats[j][2]]
             /\ out.table[i + 1].cells[1] = PyStr(rois[i].name)
       /\ [i \in 1..Len(rois) |-> rois[i].name] = ExpectedNames

\* C8 witness: a completed run with ROIs of every kind and a computed statistic
C8_Witness ==
    /\ pc = "done"
    /\ Len(options.roi_native) = 2 /\ Len(options.roi_struct) = 1
    /\ Len(options.roi_mni) = 1 /\ options.add_atlas_rois
    /\ Len(out.table) = 12
    /\ \E i \in 2..Len(out.table) : out.table[i].cells[3].k = "fin"

RowsNamed(name) ==
    {i \in 1..Len(out.table) :
        out.table[i].kind = "row" /\ out.table[i].cells[1] = PyStr(name)}

StatsComplete ==
    \A i \in 1..Len(rois), k \in 1..Len(perfusion_data) :
       /\ DictHas(rois[i].stats, "Nvoxels" \o perfusion_data[k].suffix)
       /\ \A n \in 1..Len(STAT_NAMES) :
             DictHas(rois[i].stats, STAT_NAMES[n] \o perfusion_data[k].suffix)

\* C10: get_stats has completed for every (ROI, dataset) pair before the
\* output directory is made and the table opened, so a run aborted by a
\* shape mismatch has written no table, header, row or side-car image.
C10_StatsBeforeOutput ==
    /\ (out # NoOutput) => (Loaded /\ StatsComplete)
    /\ (err \in ShapeErrors) => (pc = "aborted" /\ out = NoOutput)

\* C10 witness: a run that asked for side-car images, aborted by a native ROI
\* on another grid after the generic ROIs had been summarised
C10_Witness ==
    /\ pc = "aborted" /\ err = ERR_IMAGE
    /\ options.save_native_masks /\ options.save_native_rois
    /\ cur > 4
    /\ out = NoOutput

====
